---- MODULE Spec2Model ----
(***************************************************************************)
(* Model of createVideo.py: images + narration paragraphs -> VOICEVOX      *)
(* audio -> one clip per item (ffmpeg) -> filelist.txt -> concatenation.   *)
(*                                                                         *)
(* The program is sequential; pc is the position of main().  The audio/    *)
(* and clips/ directories persist between runs of the program, so the      *)
(* model lets the program run again and again over the same directories.   *)
(* External collaborators (the HTTP service, ffmpeg, the filesystem) are   *)
(* nondeterministic choices over the outcomes they can produce.            *)
(***************************************************************************)
EXTENDS Integers, Sequences, FiniteSets, TLC

\* ---- bounds ----
MaxItems == 2      \* most images in the folder / most paragraphs in the text file

MaxLen == 6        \* most characters of a lines file given to the paragraph splitter

\* the narration texts a lines file can hold (two different texts)
Narrations == {"A", "B"}

Idx == 1..MaxItems

\* ---- file contents ----
\* audio/lineNNN.wav: kind "none" (no file), "bad" (zero-length or not a RIFF/WAVE
\* container), "part" (valid header, truncated data), "wav" (complete response).
\* of is the narration the speech was synthesized from.
NoAudio  == [kind |-> "none", of |-> ""]
BadAudio == [kind |-> "bad",  of |-> ""]
PartWav  == [kind |-> "part", of |-> ""]
Wav(t)   == [kind |-> "wav",  of |-> t]
AudioContents == {NoAudio, BadAudio, PartWav} \cup {Wav(t) : t \in Narrations}

\* clips/clipNNN.mp4: "none", "mp4" (written by a render that exited 0),
\* "part" (left by a render that exited non-zero).
ClipContents == {"none", "mp4", "part"}

\* value of get_wav_duration: frames / rate of the file read, kept as the
\* identity of that file (which item's path, which content)
NoText == <<"", 0>>
NoDur  == [item |-> 0, of |-> NoAudio]
NoArgs == [frame |-> 0, audio |-> 0, dur |-> NoDur, clip |-> 0, overwrite |-> FALSE]

VARIABLES
  pc,         \* position of main()
  frames,     \* sorted image list (line 69): sequence of image numbers
  lines,      \* text blocks (line 74): sequence of <<narration, paragraph number>>
  n,          \* line 75
  i,          \* loop variable of line 86 (0-based, item number is i+1)
  duration,   \* line 95
  j,          \* loop variable of line 113 (1-based)
  audio,      \* directory audio/: item number -> file content
  clips,      \* directory clips/: item number -> file content
  manifest,   \* filelist.txt: sequence of item numbers whose clip path is listed
  readRes,    \* "none" | "ok" | "fail": read_lines_with_paragraphs returned / raised
  existed,    \* items whose audio file existed at line 92
  queryCalls, \* item -> number of POST /audio_query
  synthCalls, \* item -> number of POST /synthesis
  queryResp,  \* item -> "none" | "ok" | "status" (non-success) | "error" (exception)
  synthResp,  \* item -> the same, for POST /synthesis
  renderCalls,\* item -> number of render invocations
  ttsText,    \* item -> text passed to synthesize_voice (NoText: not called)
  synthRes,   \* item -> "none" | "ok" | "fail" (return value of synthesize_voice)
  probeRes,   \* item -> "none" | "ok" | "fail" (get_wav_duration returned / raised)
  renderRes,  \* item -> "none" | "ok" | "fail" (non-zero exit) | "launch" (OSError)
  renderArgs, \* item -> arguments of the render invocation
  concatCalls,\* number of concatenation invocations in this run
  concatRes,  \* "none" | "ok" | "fail" | "launch"
  msgs,       \* messages printed in this run, as <<tag, item>>
  exitCode,   \* -1 while running
  content,    \* text of a lines file given to the paragraph splitter (characters)
  blocks      \* what read_lines_with_paragraphs returned for content

vars == <<pc, frames, lines, n, i, duration, j, audio, clips, manifest,
          readRes, existed, queryCalls, synthCalls, ttsText, synthRes, probeRes,
          renderRes, renderArgs, concatCalls, concatRes, msgs, exitCode,
          queryResp, synthResp, renderCalls, content, blocks>>

fsVars    == <<audio, clips>>
histVars  == <<readRes, existed, queryCalls, synthCalls, ttsText, synthRes, probeRes,
               renderRes, renderArgs, concatCalls, concatRes, queryResp, synthResp,
               renderCalls>>
splitVars == <<content, blocks>>

Terminal == {"done", "exited", "crashed"}

Min(a, b) == IF a < b THEN a ELSE b

\* ---- paths and existence (lines 89, 90, 92, 114, 115) ----
ItemNoFirst(k0) == 1
ItemNo(k0) == k0 + 1                      \* f"line{i+1:03d}.wav", f"clip{i+1:03d}.mp4"
AudioExists(k) == audio[k].kind # "none"  \* audio.exists()
ClipExists(k)  == clips[k] # "none"  \* clip.exists()

\* line 92
NeedSynthAlways(k) == TRUE
NeedSynthStale(k) == ~AudioExists(k) \/ audio[k].of # lines[k][1]
NeedSynth(k) == ~AudioExists(k)

\* line 75
ItemCountOfLines(nFrames, nLines) == nLines
ItemCount(nFrames, nLines) == Min(nFrames, nLines)

\* lines 76-79
MismatchWarning(nFrames, nLines, cnt) ==
  IF cnt < nLines THEN {<<"warn_images_short", 0>>}
  ELSE IF cnt < nFrames THEN {<<"warn_lines_short", 0>>}
  ELSE {}

\* history of a run that has not started
ResetHist ==
  /\ readRes' = "none"
  /\ existed' = {}
  /\ queryCalls' = [k \in Idx |-> 0]
  /\ synthCalls' = [k \in Idx |-> 0]
  /\ queryResp' = [k \in Idx |-> "none"]
  /\ synthResp' = [k \in Idx |-> "none"]
  /\ renderCalls' = [k \in Idx |-> 0]
  /\ ttsText' = [k \in Idx |-> NoText]
  /\ synthRes' = [k \in Idx |-> "none"]
  /\ probeRes' = [k \in Idx |-> "none"]
  /\ renderRes' = [k \in Idx |-> "none"]
  /\ renderArgs' = [k \in Idx |-> NoArgs]
  /\ concatCalls' = 0
  /\ concatRes' = "none"

Init ==
  /\ pc = "between"
  /\ frames = << >>
  /\ lines = << >>
  /\ n = 0
  /\ i = 0
  /\ duration = NoDur
  /\ j = 0
  /\ audio \in [Idx -> AudioContents]
  /\ clips \in [Idx -> ClipContents]
  /\ manifest = << >>
  /\ readRes = "none"
  /\ existed = {}
  /\ queryCalls = [k \in Idx |-> 0]
  /\ synthCalls = [k \in Idx |-> 0]
  /\ queryResp = [k \in Idx |-> "none"]
  /\ synthResp = [k \in Idx |-> "none"]
  /\ renderCalls = [k \in Idx |-> 0]
  /\ ttsText = [k \in Idx |-> NoText]
  /\ synthRes = [k \in Idx |-> "none"]
  /\ probeRes = [k \in Idx |-> "none"]
  /\ renderRes = [k \in Idx |-> "none"]
  /\ renderArgs = [k \in Idx |-> NoArgs]
  /\ concatCalls = 0
  /\ concatRes = "none"
  /\ msgs = {}
  /\ exitCode = -1
  /\ content = << >>
  /\ blocks = << >>

\* sys.exit(1) (lines 66, 72)
Exit1(tag) ==
  /\ msgs' = msgs \cup {<<tag, 0>>}
  /\ exitCode' = 1
  /\ pc' = "exited"

\* an exception nothing catches: traceback, interpreter exits with status 1
Crash ==
  /\ exitCode' = 1
  /\ pc' = "crashed"

\* lines 59-72: argument check and image listing
StartRun ==
  /\ pc = "between"
  /\ \E inputsOk \in BOOLEAN, nFrames \in 0..MaxItems :
       IF ~inputsOk
         THEN /\ nFrames = 0
              /\ Exit1("no_input")
              /\ frames' = << >>
         ELSE /\ frames' = [k \in 1..nFrames |-> k]
              /\ IF nFrames = 0
                   THEN Exit1("no_images")
                   ELSE /\ pc' = "align"
                        /\ UNCHANGED <<msgs, exitCode>>
  /\ UNCHANGED <<lines, n, i, duration, j, manifest>>
  /\ UNCHANGED fsVars
  /\ UNCHANGED histVars
  /\ UNCHANGED splitVars

\* lines 74-84: read the text blocks, count the items, warn, make the directories
Align ==
  /\ pc = "align"
  /\ \E readOk \in BOOLEAN, nLines \in 0..MaxItems, t \in Narrations :
       IF ~readOk
         THEN /\ nLines = 0 /\ t = "A"
              /\ readRes' = "fail"
              /\ Crash
              /\ UNCHANGED <<lines, n, msgs>>
         ELSE /\ readRes' = "ok"
              /\ lines' = [k \in 1..nLines |-> <<t, k>>]
              /\ n' = ItemCount(Len(frames), nLines)
              /\ msgs' = msgs \cup MismatchWarning(Len(frames), nLines, n')
              /\ pc' = "loop"
              /\ UNCHANGED exitCode
  /\ i' = 0
  /\ UNCHANGED <<frames, duration, j, manifest>>
  /\ UNCHANGED fsVars
  /\ UNCHANGED <<existed, queryCalls, synthCalls, ttsText, synthRes, probeRes,
                 renderRes, renderArgs, concatCalls, concatRes>>
  /\ UNCHANGED <<queryResp, synthResp, renderCalls>>
  /\ UNCHANGED splitVars

\* lines 86-92: next iteration, or leave the loop and open filelist.txt (line 112)
LoopHead ==
  /\ pc = "loop"
  /\ IF i < n
       THEN /\ existed' = IF AudioExists(ItemNo(i)) THEN existed \cup {ItemNo(i)}
                                                          ELSE existed
            /\ IF NeedSynth(ItemNo(i))
                 THEN /\ pc' = "tts_query"
                      /\ ttsText' = [ttsText EXCEPT ![ItemNo(i)] = lines[i + 1]]
                 ELSE /\ pc' = "probe"
                      /\ UNCHANGED ttsText
            /\ UNCHANGED <<manifest, j>>
       ELSE /\ pc' = "manifest"
            /\ manifest' = << >>
            /\ j' = 1
            /\ UNCHANGED <<existed, ttsText>>
  /\ UNCHANGED <<frames, lines, n, i, duration, msgs, exitCode>>
  /\ UNCHANGED fsVars
  /\ UNCHANGED <<readRes, queryCalls, synthCalls, synthRes, probeRes, renderRes,
                 renderArgs, concatCalls, concatRes>>
  /\ UNCHANGED <<queryResp, synthResp, renderCalls>>
  /\ UNCHANGED splitVars

\* requests.post returns a success status, returns an error status, or raises
\* (connection refused; for the query also a body that is not JSON, line 22)
HttpOutcomes == {"ok", "status", "error"}

\* lines 21, 30: raise_for_status raises on a non-success status
RaiseNever(resp) == FALSE
RaiseForStatus(resp) == resp = "status"

\* lines 34-36: the except branch of synthesize_voice
SynthFailed(k) ==
  /\ msgs' = msgs \cup {<<"synth_fail", k>>}
  /\ synthRes' = [synthRes EXCEPT ![k] = "fail"]
  /\ pc' = "probe"

\* lines 17-23: POST /audio_query, raise_for_status, json()
TTSQuery ==
  /\ pc = "tts_query"
  /\ queryCalls' = [queryCalls EXCEPT ![ItemNo(i)] = @ + 1]
  /\ \E resp \in HttpOutcomes :
       /\ queryResp' = [queryResp EXCEPT ![ItemNo(i)] = resp]
       /\ IF resp = "error" \/ RaiseForStatus(resp)
            THEN SynthFailed(ItemNo(i))
            ELSE /\ pc' = "tts_synth"
                 /\ UNCHANGED <<msgs, synthRes>>
  /\ UNCHANGED <<frames, lines, n, i, duration, j, manifest, exitCode>>
  /\ UNCHANGED fsVars
  /\ UNCHANGED <<readRes, existed, synthCalls, ttsText, probeRes, renderRes, renderArgs,
                 concatCalls, concatRes>>
  /\ UNCHANGED <<synthResp, renderCalls>>
  /\ UNCHANGED splitVars

\* lines 25-30: POST /synthesis, raise_for_status
TTSSynth ==
  /\ pc = "tts_synth"
  /\ synthCalls' = [synthCalls EXCEPT ![ItemNo(i)] = @ + 1]
  /\ \E resp \in HttpOutcomes :
       /\ synthResp' = [synthResp EXCEPT ![ItemNo(i)] = resp]
       /\ IF resp = "error" \/ RaiseForStatus(resp)
            THEN SynthFailed(ItemNo(i))
            ELSE /\ pc' = "tts_write"
                 /\ UNCHANGED <<msgs, synthRes>>
  /\ UNCHANGED <<frames, lines, n, i, duration, j, manifest, exitCode>>
  /\ UNCHANGED fsVars
  /\ UNCHANGED <<readRes, existed, queryCalls, ttsText, probeRes, renderRes, renderArgs,
                 concatCalls, concatRes>>
  /\ UNCHANGED <<queryResp, renderCalls>>
  /\ UNCHANGED splitVars

\* what open(out_path, "wb") / f.write can leave at the path when they raise:
\* nothing (open refused), an empty or headerless file, a file cut after the header
WriteErrorLeaves == {NoAudio, BadAudio, PartWav}

\* lines 32-37: write the response to out_path
TTSWrite ==
  /\ pc = "tts_write"
  /\ \E ok \in BOOLEAN :
       IF ok
         THEN /\ audio' = [audio EXCEPT ![ItemNo(i)] = Wav(ttsText[ItemNo(i)][1])]
              /\ synthRes' = [synthRes EXCEPT ![ItemNo(i)] = "ok"]
              /\ pc' = "probe"
              /\ UNCHANGED msgs
         ELSE /\ \E left \in WriteErrorLeaves :
                   audio' = [audio EXCEPT ![ItemNo(i)] = left]
              /\ SynthFailed(ItemNo(i))
  /\ UNCHANGED <<frames, lines, n, i, duration, j, manifest, exitCode, clips>>
  /\ UNCHANGED <<readRes, existed, queryCalls, synthCalls, ttsText, probeRes, renderRes,
                 renderArgs, concatCalls, concatRes>>
  /\ UNCHANGED <<queryResp, synthResp, renderCalls>>
  /\ UNCHANGED splitVars

\* lines 45-49: wave.open raises on a missing, empty or non-WAVE file
Readable(k) == audio[k].kind \in {"wav", "part"}
get_wav_duration(k) == [item |-> k, of |-> audio[k]]

\* lines 97-98: the render follows the probe unconditionally (no clip.exists() test)
NeedRenderIfAbsent(k) == ~ClipExists(k)
NeedRender(k) == TRUE

\* line 95: the call is outside any try
Probe ==
  /\ pc = "probe"
  /\ IF Readable(ItemNo(i))
       THEN /\ duration' = get_wav_duration(ItemNo(i))
            /\ probeRes' = [probeRes EXCEPT ![ItemNo(i)] = "ok"]
            /\ IF NeedRender(ItemNo(i))
                 THEN /\ pc' = "render"
                      /\ UNCHANGED i
                 ELSE /\ pc' = "loop"
                      /\ i' = i + 1
            /\ UNCHANGED exitCode
       ELSE /\ probeRes' = [probeRes EXCEPT ![ItemNo(i)] = "fail"]
            /\ Crash
            /\ UNCHANGED <<duration, i>>
  /\ UNCHANGED <<frames, lines, n, j, manifest, msgs>>
  /\ UNCHANGED fsVars
  /\ UNCHANGED <<readRes, existed, queryCalls, synthCalls, ttsText, synthRes, renderRes,
                 renderArgs, concatCalls, concatRes>>
  /\ UNCHANGED <<queryResp, synthResp, renderCalls>>
  /\ UNCHANGED splitVars

\* what ffmpeg -y can leave at the clip path when it exits non-zero: the path
\* untouched (it failed before opening the output) or a partly written file
RenderErrorLeaves(k) == {clips[k], "part"}

\* lines 97-110: render item i+1; only CalledProcessError is caught
Render ==
  /\ pc = "render"
  /\ renderCalls' = [renderCalls EXCEPT ![ItemNo(i)] = @ + 1]
  /\ renderArgs' = [renderArgs EXCEPT ![ItemNo(i)] =
                      [frame |-> frames[i + 1], audio |-> ItemNo(i),
                       dur |-> duration, clip |-> ItemNo(i), overwrite |-> TRUE]]
  /\ \E res \in {"ok", "fail", "launch"} :
       /\ renderRes' = [renderRes EXCEPT ![ItemNo(i)] = res]
       /\ CASE res = "ok" ->
                 /\ clips' = [clips EXCEPT ![ItemNo(i)] = "mp4"]
                 /\ i' = i + 1
                 /\ pc' = "loop"
                 /\ UNCHANGED <<msgs, exitCode>>
            [] res = "fail" ->
                 /\ \E left \in RenderErrorLeaves(ItemNo(i)) :
                      clips' = [clips EXCEPT ![ItemNo(i)] = left]
                 /\ msgs' = msgs \cup {<<"render_fail", ItemNo(i)>>}
                 /\ i' = i + 1
                 /\ pc' = "loop"
                 /\ UNCHANGED exitCode
            [] res = "launch" ->
                 /\ Crash
                 /\ UNCHANGED <<clips, msgs, i>>
  /\ UNCHANGED <<frames, lines, n, duration, j, manifest, audio>>
  /\ UNCHANGED <<readRes, existed, queryCalls, synthCalls, ttsText, synthRes, probeRes,
                 concatCalls, concatRes>>
  /\ UNCHANGED <<queryResp, synthResp>>
  /\ UNCHANGED splitVars

\* lines 114-116: the clip path is written if the file is there
WriteEntryUnchecked(f, k) == Append(f, k)
WriteEntry(f, k) == IF ClipExists(k) THEN Append(f, k) ELSE f

\* line 113: range(1, n + 1) ends at n
LastManifestIndexShort == n - 1
LastManifestIndex == n

\* lines 113-116: one index of the manifest loop; past n the file is closed
ManifestStep ==
  /\ pc = "manifest"
  /\ IF j <= LastManifestIndex
       THEN /\ manifest' = WriteEntry(manifest, j)
            /\ j' = j + 1
            /\ UNCHANGED pc
       ELSE /\ pc' = "concat"
            /\ UNCHANGED <<manifest, j>>
  /\ UNCHANGED <<frames, lines, n, i, duration, msgs, exitCode>>
  /\ UNCHANGED fsVars
  /\ UNCHANGED histVars
  /\ UNCHANGED splitVars

\* lines 118-124: concatenation; only CalledProcessError is caught
Concat ==
  /\ pc = "concat"
  /\ concatCalls' = concatCalls + 1
  /\ \E res \in {"ok", "fail", "launch"} :
       /\ concatRes' = res
       /\ CASE res = "ok" ->
                 /\ pc' = "finish"
                 /\ UNCHANGED <<msgs, exitCode>>
            [] res = "fail" ->
                 /\ msgs' = msgs \cup {<<"concat_error", 0>>}
                 /\ pc' = "finish"
                 /\ UNCHANGED exitCode
            [] res = "launch" ->
                 /\ Crash
                 /\ UNCHANGED msgs
  /\ UNCHANGED <<frames, lines, n, i, duration, j, manifest>>
  /\ UNCHANGED fsVars
  /\ UNCHANGED <<readRes, existed, queryCalls, synthCalls, ttsText, synthRes, probeRes,
                 renderRes, renderArgs>>
  /\ UNCHANGED <<queryResp, synthResp, renderCalls>>
  /\ UNCHANGED splitVars

\* line 126 and the return of main(): the interpreter exits with status 0
Finish ==
  /\ pc = "finish"
  /\ msgs' = msgs \cup {<<"success", 0>>}
  /\ exitCode' = 0
  /\ pc' = "done"
  /\ UNCHANGED <<frames, lines, n, i, duration, j, manifest>>
  /\ UNCHANGED fsVars
  /\ UNCHANGED histVars
  /\ UNCHANGED splitVars

\* the process is gone; the working directory stays as the run left it
NextRun ==
  /\ pc \in Terminal
  /\ pc' = "between"
  /\ frames' = << >>
  /\ lines' = << >>
  /\ n' = 0
  /\ i' = 0
  /\ duration' = NoDur
  /\ j' = 0
  /\ manifest' = << >>
  /\ msgs' = {}
  /\ exitCode' = -1
  /\ ResetHist
  /\ UNCHANGED fsVars
  /\ UNCHANGED splitVars

\* between two runs the user removes one audio file
DeleteAudio ==
  /\ pc = "between"
  /\ \E k \in Idx :
       /\ AudioExists(k)
       /\ audio' = [audio EXCEPT ![k] = NoAudio]
  /\ UNCHANGED <<pc, frames, lines, n, i, duration, j, clips, manifest,
                 msgs, exitCode>>
  /\ UNCHANGED histVars
  /\ UNCHANGED splitVars

Next ==
  \/ StartRun
  \/ Align
  \/ LoopHead
  \/ TTSQuery
  \/ TTSSynth
  \/ TTSWrite
  \/ Probe
  \/ Render
  \/ ManifestStep
  \/ Concat
  \/ Finish
  \/ NextRun
  \/ DeleteAudio

Spec == Init /\ [][Next]_vars

\* ---- type invariant ----
TypeOK ==
  /\ pc \in {"between", "align", "loop", "tts_query", "tts_synth", "tts_write",
              "probe", "render", "manifest", "concat", "finish"} \cup Terminal
  /\ n \in 0..MaxItems
  /\ i \in 0..n
  /\ exitCode \in {-1, 0, 1}

\* ---- what a run has done so far ----
\* the loop of line 86 has taken up item k (it is at item k or past it)
Reached(k) ==
  /\ k \in 1..n
  /\ \/ k <= i
     \/ /\ k = i + 1
        /\ pc \in {"tts_query", "tts_synth", "tts_write", "probe", "render", "crashed"}
\* the service is, or has been, called for item k
TTSInvoked(k) == queryCalls[k] > 0 \/ (pc = "tts_query" /\ k = i + 1)
\* item k went through its audio, probe and render steps
Attempted(k) == Reached(k) /\ probeRes[k] # "none" /\ renderRes[k] # "none"
\* the manifest step is over
ManifestWritten == pc \in {"concat", "finish", "done"} \/ concatRes # "none"
Printed(tag, k) == <<tag, k>> \in msgs
Aligned == readRes = "ok"

\* C1: when the synthesis of item k failed, the run is not aborted: once the run
\* is over every item k+1..n went through its audio, probe and render steps, the
\* manifest was written and the concatenation was invoked.
C1_SynthesisFailureIsolated ==
  pc \in Terminal =>
    \A k \in 1..n : synthRes[k] = "fail" =>
      /\ \A m \in (k + 1)..n : Attempted(m)
      /\ ManifestWritten
      /\ concatCalls = 1

\* C2: when the render of item k exits non-zero or cannot be launched, the
\* failure is logged and the loop goes on to item k+1; the run does not end there.
C2_RenderFailureIsolated ==
  \A k \in 1..n : renderRes[k] \in {"fail", "launch"} =>
    /\ Printed("render_fail", k)
    /\ i >= k

\* C3: the manifest lists the clip of item k only if, in this run, the audio step
\* of item k succeeded (file reused or synthesized) and its render exited 0.
C3_ManifestEligibility ==
  \A m \in 1..Len(manifest) :
    /\ manifest[m] \in existed \/ synthRes[manifest[m]] = "ok"
    /\ probeRes[manifest[m]] = "ok"
    /\ renderRes[manifest[m]] = "ok"

\* C4: the manifest is strictly ascending in item number (so without
\* duplicates), lists only items of 1..n whose clip file exists, and when every
\* item of 1..n was rendered successfully it is exactly 1, 2, ..., n.
C4_ManifestOrdered ==
  /\ \A a, b \in 1..Len(manifest) : a < b => manifest[a] < manifest[b]
  /\ \A a \in 1..Len(manifest) :
       /\ manifest[a] \in 1..n
       /\ clips[manifest[a]] # "none"
  /\ (ManifestWritten /\ \A k \in 1..n : renderRes[k] = "ok")
       => manifest = [k \in 1..n |-> k]

C4_Witness ==
  /\ pc = "concat"
  /\ n = 2
  /\ \A k \in 1..n : renderRes[k] = "ok"
  /\ manifest = <<1, 2>>

\* C5: within a run the service is called for item k exactly when no file was at
\* audio/line{k}.wav when the loop reached item k; it is never called for an item
\* the loop has not reached, and a file that exists is left as it is.
C5_SynthesisCache ==
  \A k \in Idx :
    /\ Reached(k) => (TTSInvoked(k) <=> k \notin existed)
    /\ ~Reached(k) => ~TTSInvoked(k)
    /\ k \in existed => (queryCalls[k] = 0 /\ synthCalls[k] = 0 /\ synthRes[k] = "none")

C5_Witness ==
  /\ n = 2
  /\ pc = "done"
  /\ 1 \in existed /\ queryCalls[1] = 0
  /\ 2 \notin existed /\ queryCalls[2] = 1 /\ synthCalls[2] = 1

\* C6: once the text blocks are read, n is the smaller of the two counts; every
\* synthesis and render is for an item k <= n and pairs text block k and image k
\* with the files of item k; when the loop is left all of 1..n were taken up; the
\* "images short" warning is printed exactly when there are fewer images than
\* blocks, the "lines short" warning exactly when there are fewer blocks.
C6_Alignment ==
  Aligned =>
    /\ n <= Len(frames) /\ n <= Len(lines)
    /\ n = Len(frames) \/ n = Len(lines)
    /\ \A k \in Idx :
         /\ ttsText[k] # NoText => (k <= n /\ ttsText[k] = lines[k])
         /\ renderArgs[k] # NoArgs =>
              /\ k <= n
              /\ renderArgs[k].frame = frames[k]
              /\ renderArgs[k].audio = k
              /\ renderArgs[k].clip = k
         /\ k > n => (queryCalls[k] = 0 /\ synthCalls[k] = 0 /\ probeRes[k] = "none"
                        /\ renderRes[k] = "none" /\ k \notin existed)
    /\ pc \in {"manifest", "concat", "finish", "done"} => \A k \in 1..n : Attempted(k)
    /\ Printed("warn_images_short", 0) <=> Len(frames) < Len(lines)
    /\ Printed("warn_lines_short", 0) <=> Len(lines) < Len(frames)

C6_Witness ==
  /\ pc = "done"
  /\ Len(frames) = 1 /\ Len(lines) = 2
  /\ Printed("warn_images_short", 0)
  /\ renderArgs[1] # NoArgs
  /\ renderRes[2] = "none"

\* C7: when the concatenation (of a run with at least one item) fails, the run
\* ends with a non-zero exit status and the success message is not printed.
C7_ConcatFailureFatal ==
  (n >= 1 /\ concatRes \in {"fail", "launch"}) =>
    /\ ~Printed("success", 0)
    /\ pc \in Terminal => exitCode = 1

\* C8: when there is no image or the lines file yields no text block, the run
\* stops with exit status 1 before any item, manifest or concatenation.
C8_EmptyInputFatal ==
  (Printed("no_images", 0) \/ (Aligned /\ Len(lines) = 0)) =>
    /\ pc = "exited"
    /\ exitCode = 1
    /\ concatCalls = 0

\* C9: with valid, non-empty inputs and readable reused audio files, whatever
\* the outcomes of the items' syntheses and renders, a run that is over has
\* invoked the concatenation (which could be launched) and ended by a normal
\* exit, with status 0 when the concatenation succeeded.
C9_CompletesDespiteItemFailures ==
  (/\ pc \in Terminal
   /\ Aligned
   /\ n >= 1
   /\ \A k \in existed : Readable(k)
   /\ concatRes # "launch") =>
    /\ pc = "done"
    /\ concatCalls = 1
    /\ concatRes = "ok" => exitCode = 0

\* C10: when the probe cannot read the audio file of item k, item k is not
\* rendered and not listed, and once the run is over the items k+1..n went
\* through their steps and the manifest and concatenation steps were taken.
C10_ProbeFailureIsolated ==
  \A k \in 1..n : probeRes[k] = "fail" =>
    /\ renderRes[k] = "none"
    /\ \A m \in 1..Len(manifest) : manifest[m] # k
    /\ pc \in Terminal => /\ \A m \in (k + 1)..n : Attempted(m)
                          /\ concatCalls = 1

\* C11: the render of item k is invoked only after the audio step of item k
\* succeeded (file reused or synthesized) and the probe returned the duration of
\* item k's own file, and that duration is the one passed; an item whose
\* synthesis failed is never rendered.
C11_AudioBeforeRender ==
  \A k \in Idx :
    /\ renderArgs[k] # NoArgs =>
         /\ k \in existed \/ synthRes[k] = "ok"
         /\ probeRes[k] = "ok"
         /\ renderArgs[k].dur = [item |-> k, of |-> audio[k]]
    /\ synthRes[k] = "fail" => renderArgs[k] = NoArgs

\* the phases of a run, in their order
Phase(p) ==
  CASE p = "between" -> 0
    [] p = "align" -> 1
    [] p \in {"loop", "tts_query", "tts_synth", "tts_write", "probe", "render"} -> 2
    [] p = "manifest" -> 3
    [] p \in {"concat", "finish"} -> 4
    [] p \in Terminal -> 5

\* C12: within a run the phases only move forward (collecting, aligning,
\* processing items in ascending order one at a time, manifesting,
\* concatenating, over); the manifest step starts only when every item of 1..n
\* was attempted; the concatenation is invoked at most once, from the
\* concatenating phase, when the manifest loop has gone through all of 1..n and
\* listed every clip that exists.
C12_PhaseOrder ==
  [][ /\ pc' # "between" =>
           /\ Phase(pc') >= Phase(pc)
           /\ (Phase(pc) = 2 /\ Phase(pc') = 2) => (i' = i \/ i' = i + 1)
      /\ pc' = "manifest" => \A k \in 1..n' : Attempted(k)'
      /\ concatCalls' <= 1
      /\ concatCalls' > concatCalls =>
           /\ pc = "concat"
           /\ j = n + 1
           /\ \A k \in 1..n : clips[k] # "none" =>
                 \E m \in 1..Len(manifest) : manifest[m] = k
    ]_vars

C12_Witness ==
  /\ pc = "done"
  /\ n = 2
  /\ concatCalls = 1
  /\ Len(manifest) = 1
  /\ renderRes[1] = "fail"

\* C13: for each item the query call and the synthesis call are made at most
\* once; the synthesis call is made only after the query call returned a success
\* status; within a run the audio file changes only after the synthesis call
\* returned a success status; when either call fails, the item's path holds no
\* file and synthesize_voice has reported failure.
C13_TTSProtocol ==
  [][ \A k \in Idx :
        /\ queryCalls'[k] <= 1
        /\ synthCalls'[k] <= 1
        /\ synthCalls'[k] > synthCalls[k] => queryResp[k] = "ok"
        /\ (pc # "between" /\ audio'[k] # audio[k]) => synthResp[k] = "ok"
        /\ (queryResp'[k] \in {"status", "error"} \/ synthResp'[k] \in {"status", "error"}) =>
             /\ audio'[k] = NoAudio
             /\ synthRes'[k] = "fail"
    ]_vars

C13_Witness ==
  /\ queryResp[1] = "ok" /\ synthResp[1] = "ok"
  /\ synthRes[1] = "ok" /\ audio[1].kind = "wav"
  /\ queryResp[2] = "ok" /\ synthResp[2] = "status"
  /\ synthRes[2] = "fail" /\ audio[2] = NoAudio

\* the loop body has begun for item k / item k is begun and not yet rendered
Started(k) == k \in existed \/ ttsText[k] # NoText
InProgress(k) == Started(k) /\ renderRes[k] = "none"

\* C14: items are processed strictly one after the other: an item is begun only
\* when every earlier item has been through its render, at most one item is in
\* progress at any time, and within a run an audio file is written only by the
\* write step of the current item i+1 at its own path, a clip file only by the
\* render of the current item i+1 at its own path.
C14_Sequential ==
  [][ pc # "between" =>
        /\ \A k \in Idx :
             /\ audio'[k] # audio[k] => (pc = "tts_write" /\ k = i + 1)
             /\ clips'[k] # clips[k] => (pc = "render" /\ k = i + 1)
             /\ (Started(k)' /\ ~Started(k)) =>
                  /\ k = i + 1
                  /\ \A m \in 1..(k - 1) : renderRes[m] \in {"ok", "fail"}
        /\ Cardinality({k \in Idx : InProgress(k)'}) <= 1
    ]_vars

C14_Witness ==
  /\ pc = "loop"
  /\ n = 2 /\ i = 2
  /\ synthRes[1] = "ok" /\ synthRes[2] = "ok"
  /\ renderRes[1] = "ok" /\ renderRes[2] = "ok"

\* ---- the paragraph splitter (lines 39-43) on texts as character sequences ----
\* the file is opened in text mode, so every line break is read as "\n"
NL == "\n"
Chars == {"a", "b", " ", NL}
IsSpace(c) == c \in {" ", NL}
Texts == UNION {[1..m -> Chars] : m \in 0..MaxLen}

SetMin(S) == CHOOSE x \in S : \A y \in S : x <= y
SetMax(S) == CHOOSE x \in S : \A y \in S : x >= y

\* str.strip()
Strip(t) ==
  LET ink == {k \in 1..Len(t) : ~IsSpace(t[k])}
  IN IF ink = {} THEN << >> ELSE SubSeq(t, SetMin(ink), SetMax(ink))

\* str.split("\n\n"): left to right, separators do not overlap, empty pieces kept
RECURSIVE SplitBlank(_, _)
SplitBlank(t, cur) ==
  IF t = << >> THEN <<cur>>
  ELSE IF Len(t) >= 2 /\ t[1] = NL /\ t[2] = NL
    THEN <<cur>> \o SplitBlank(SubSeq(t, 3, Len(t)), << >>)
    ELSE SplitBlank(Tail(t), Append(cur, t[1]))

\* [block.strip() for block in ... if block.strip()]
RECURSIVE StripKept(_)
StripKept(parts) ==
  IF parts = << >> THEN << >>
  ELSE IF Strip(Head(parts)) # << >>
    THEN <<Strip(Head(parts))>> \o StripKept(Tail(parts))
    ELSE StripKept(Tail(parts))

\* [block.strip() for block in ...], the filter forgotten
RECURSIVE StripAll(_)
StripAll(parts) ==
  IF parts = << >> THEN << >>
  ELSE <<Strip(Head(parts))>> \o StripAll(Tail(parts))

ReadLinesKeepEmpty(t) == StripAll(SplitBlank(Strip(t), << >>))
read_lines_with_paragraphs(t) == StripKept(SplitBlank(Strip(t), << >>))

SplitInit ==
  /\ pc = "split"
  /\ content \in Texts
  /\ blocks = << >>
  /\ frames = << >>
  /\ lines = << >>
  /\ n = 0
  /\ i = 0
  /\ duration = NoDur
  /\ j = 0
  /\ audio = [k \in Idx |-> NoAudio]
  /\ clips = [k \in Idx |-> "none"]
  /\ manifest = << >>
  /\ readRes = "none"
  /\ existed = {}
  /\ queryCalls = [k \in Idx |-> 0]
  /\ synthCalls = [k \in Idx |-> 0]
  /\ queryResp = [k \in Idx |-> "none"]
  /\ synthResp = [k \in Idx |-> "none"]
  /\ renderCalls = [k \in Idx |-> 0]
  /\ ttsText = [k \in Idx |-> NoText]
  /\ synthRes = [k \in Idx |-> "none"]
  /\ probeRes = [k \in Idx |-> "none"]
  /\ renderRes = [k \in Idx |-> "none"]
  /\ renderArgs = [k \in Idx |-> NoArgs]
  /\ concatCalls = 0
  /\ concatRes = "none"
  /\ msgs = {}
  /\ exitCode = -1

\* line 74: the call of the splitter on the text read
ReadLines ==
  /\ pc = "split"
  /\ blocks' = read_lines_with_paragraphs(content)
  /\ pc' = "split_done"
  /\ UNCHANGED <<frames, lines, n, i, duration, j, manifest, msgs, exitCode, content>>
  /\ UNCHANGED fsVars
  /\ UNCHANGED histVars

SplitNext == ReadLines

SplitSpec == SplitInit /\ [][SplitNext]_vars

\* the rule of the specification, by positions: the characters that are not
\* whitespace are grouped; two neighbouring ones are in different blocks exactly
\* when the whitespace between them holds two line breaks in a row; a block runs
\* from the first to the last character of its group
Ink(t) == {k \in 1..Len(t) : ~IsSpace(t[k])}
BlankBetween(t, a, b) == \E k \in (a + 1)..(b - 2) : t[k] = NL /\ t[k + 1] = NL
PrevInk(t, k) == SetMax({m \in Ink(t) : m < k})
NextInk(t, k) == SetMin({m \in Ink(t) : m > k})
BlockStarts(t) ==
  {k \in Ink(t) : (\A m \in Ink(t) : m >= k) \/ BlankBetween(t, PrevInk(t, k), k)}
BlockEnds(t) ==
  {k \in Ink(t) : (\A m \in Ink(t) : m <= k) \/ BlankBetween(t, k, NextInk(t, k))}
RECURSIVE Nth(_, _)
Nth(S, m) == IF m = 1 THEN SetMin(S) ELSE Nth(S \ {SetMin(S)}, m - 1)
RefBlocks(t) ==
  [m \in 1..Cardinality(BlockStarts(t)) |->
     SubSeq(t, Nth(BlockStarts(t), m), Nth(BlockEnds(t), m))]

\* C15: the splitter returns the blocks of the reference rule, in source order;
\* no block is empty and no block begins or ends with whitespace.
C15_Splitter ==
  pc = "split_done" =>
    /\ blocks = RefBlocks(content)
    /\ \A m \in 1..Len(blocks) :
         /\ Len(blocks[m]) > 0
         /\ ~IsSpace(blocks[m][1])
         /\ ~IsSpace(blocks[m][Len(blocks[m])])

C15_Witness ==
  /\ pc = "split_done"
  /\ content = <<"a", NL, NL, NL, " ", "b">>
  /\ blocks = << <<"a">>, <<"b">> >>

\* C16: a failed synthesis leaves no file at the item's audio path, and a file
\* that this run created at an audio path is the complete response of a
\* successful synthesis.
C16_CacheSoundness ==
  \A k \in Idx :
    /\ synthRes[k] = "fail" => audio[k] = NoAudio
    /\ (Reached(k) /\ k \notin existed /\ audio[k] # NoAudio) =>
         /\ synthRes[k] = "ok"
         /\ audio[k].kind = "wav"

\* C17: in every run the renderer is invoked exactly once, with the overwrite
\* flag, for every item whose probe succeeded, whether or not its clip file
\* exists, and for no other item; a run over a directory that already holds
\* every audio file calls the service for no item and, when it gets through the
\* loop, has invoked the renderer once for each of the n items.
C17_NoClipCache ==
  /\ \A k \in Idx :
       /\ renderCalls[k] <= 1
       /\ renderCalls[k] = 1 => (probeRes[k] = "ok" /\ renderArgs[k].overwrite)
       /\ (probeRes[k] = "ok" /\ ~(pc = "render" /\ k = i + 1)) => renderCalls[k] = 1
  /\ (\A k \in 1..n : Reached(k) => k \in existed) => \A k \in 1..n : queryCalls[k] = 0
  /\ (pc = "manifest" \/ ManifestWritten) => \A k \in 1..n : renderCalls[k] = 1

C17_Witness ==
  /\ pc = "done"
  /\ n = 2
  /\ existed = {1, 2}
  /\ \A k \in 1..n : queryCalls[k] = 0 /\ renderCalls[k] = 1
  /\ renderRes[1] = "fail" /\ clips[1] = "mp4"
  /\ renderRes[2] = "ok"

\* C18: within a run an audio file that exists is neither removed nor rewritten,
\* and the render of an item whose file was found at line 92 is given that file
\* and the duration probed from it, whatever text the item has now.
C18_StaleAudio ==
  [][ pc # "between" =>
        \A k \in Idx :
          /\ audio[k] # NoAudio => audio'[k] = audio[k]
          /\ (renderCalls'[k] > renderCalls[k] /\ k \in existed) =>
               /\ renderArgs'[k].audio = k
               /\ renderArgs'[k].dur = [item |-> k, of |-> audio[k]]
    ]_vars

\* the clip of item 1 is rendered from speech of narration A while the lines
\* file holds narration B
C18_Witness ==
  /\ renderRes[1] = "ok"
  /\ 1 \in existed
  /\ lines[1] = <<"B", 1>>
  /\ audio[1] = Wav("A")
  /\ renderArgs[1].dur.of = Wav("A")

====
